---- MODULE Spec2Model ----
(***************************************************************************)
(* A model of backend/services/ai.service.js: the doubt-resolution core of *)
(* ETA-OTT.  The state machines of this module:                            *)
(*   Spec      the graph store and the four store operations               *)
(*             (saveToKnowledgeGraph, saveDoubtToGraph,                    *)
(*             searchExistingDoubts, searchKnowledgeGraph, getEmbedding);  *)
(*   SpecAsk   one askGroq call after another (prompt mode, vision mode,   *)
(*             credential, network requests);                              *)
(*   SpecConf  calculateConfidence applied to drawn inputs.                *)
(* SpecKG, SpecDoubt, SpecRoundTrip, SpecKeys, SpecCache and SpecSearch    *)
(* are Spec restricted to some operations and arguments; SpecCache keeps   *)
(* in "log" the answers of the saveDoubtToGraph calls made.                *)
(* SpecFormat applies checkFormattingQuality to drawn                      *)
(* texts, and SpecResolve runs concurrent resolution requests, which call  *)
(* the store operations in the order the specification gives.              *)
(* Strings the code takes apart (queries, contexts) are sequences of       *)
(* one-character strings; strings it only compares are TLA+ strings.       *)
(* Timestamps (datetime()) are not modelled: nothing reads them.           *)
(***************************************************************************)
EXTENDS Integers, Sequences, FiniteSets, TLC

VARIABLES store, last, calls, ask, conf, resolve, log

vars == <<store, last, calls, ask, conf, resolve, log>>

(***************************************************************************)
(* Bounds of the model.                                                    *)
(***************************************************************************)
\* Calls in a run of the knowledge-graph machine and of the doubt machine.
MaxCalls == 2
\* Calls in a run of the machine with all four operations.
MaxCallsAll == 1

(***************************************************************************)
(* Program constants.                                                      *)
(***************************************************************************)
AdmissionThreshold == 85
RetrievalThreshold == 80
ConceptMinLen == 5
SimilarityThreshold == 80
TopK == 5

(***************************************************************************)
(* Characters and strings.                                                 *)
(***************************************************************************)
\* The letters that occur in the inputs, in both cases.
Letters == <<<<"a", "A">>, <<"c", "C">>, <<"d", "D">>, <<"e", "E">>, <<"k", "K">>,
             <<"o", "O">>, <<"r", "R">>, <<"s", "S">>, <<"t", "T">>>>

LowerChar(c) ==
    IF \E i \in DOMAIN Letters : Letters[i][2] = c
    THEN Letters[CHOOSE i \in DOMAIN Letters : Letters[i][2] = c][1]
    ELSE c

UpperChar(c) ==
    IF \E i \in DOMAIN Letters : Letters[i][1] = c
    THEN Letters[CHOOSE i \in DOMAIN Letters : Letters[i][1] = c][2]
    ELSE c

IsSpace(c) == c = " "

toLowerCase(s) == [i \in 1..Len(s) |-> LowerChar(s[i])]

RECURSIVE trimStart(_)
trimStart(s) ==
    IF s # <<>> /\ IsSpace(Head(s)) THEN trimStart(Tail(s)) ELSE s

RECURSIVE trimEnd(_)
trimEnd(s) ==
    IF s # <<>> /\ IsSpace(s[Len(s)]) THEN trimEnd(SubSeq(s, 1, Len(s) - 1)) ELSE s

trim(s) == trimEnd(trimStart(s))

\* split(s, ' '): the pieces between single spaces, empty pieces included.
RECURSIVE split(_, _)
split(s, cur) ==
    IF s = <<>> THEN <<cur>>
    ELSE IF IsSpace(Head(s)) THEN <<cur>> \o split(Tail(s), <<>>)
    ELSE split(Tail(s), Append(cur, Head(s)))

\* apoc.text.capitalize: the first character in upper case.
capitalize(w) == IF w = <<>> THEN w ELSE <<UpperChar(Head(w))>> \o Tail(w)


(***************************************************************************)
(* The inputs the operations are called with.                              *)
(***************************************************************************)
\* "Sorted set", " sorted SET " (the same question up to case and padding)
\* and "a stack" (no word longer than five characters).
QSorted == <<"S","o","r","t","e","d"," ","s","e","t">>
QSortedPadded == <<" ","s","o","r","t","e","d"," ","S","E","T"," ">>
QStack == <<"a"," ","s","t","a","c","k">>
QueryPool == {QSorted, QSortedPadded, QStack}

CtxNone == <<>>
CtxSets == <<"S","e","t","s">>
ContextPool == {CtxNone, CtxSets}

AnswerPool == {"answer-1", "answer-2"}
ConfidencePool == {84, 85, 90}
DoubtConfidencePool == {79, 80}

\* Course and Content nodes are owned by other parts of the system; this
\* core only matches them by id.  "" is what a missing contentId becomes.
CourseIdPool == {"course-1", "course-x"}
ContentIdPool == {"", "content-1", "content-x"}

\* What the embedding provider and the store do with a request.
\* "transport_error" stands for every way the request, or reading its
\* response, throws.
EmbeddingOutcomes == {"ok", "success_false", "transport_error"}
\* failAt = n: the n-th store query of the call fails; 0: none does.
FailAtSave == {0, 1}
FailAtSearch == {0, 1, 2}

(***************************************************************************)
(* Return values and exceptions.  Every value an operation returns is a    *)
(* record of one shape; "kind" tells null, true, false, undefined and the  *)
(* result objects apart.                                                   *)
(***************************************************************************)
Value(kind, question, answer, confidence, source) ==
    [kind |-> kind, question |-> question, answer |-> answer,
     confidence |-> confidence, source |-> source]

Plain(kind) == Value(kind, <<>>, "", 0, "")

NullEmbedding == [ok |-> FALSE, of |-> <<>>]
Vector(text) == [ok |-> TRUE, of |-> text]

\* The outcome of running a piece of code: the store it leaves, what it
\* returned or that it threw, and the requests it issued, in order.
Returned(st, v, io) == [st |-> st, ret |-> v, raised |-> FALSE, io |-> io]
Thrown(st, io) == [st |-> st, ret |-> Plain("exception"), raised |-> TRUE, io |-> io]

(***************************************************************************)
(* The graph store: nodes by label, in creation order, and edges.          *)
(***************************************************************************)
EmptyStore ==
    [questions |-> <<>>, answers |-> <<>>, concepts |-> <<>>,
     doubts |-> <<>>, edges |-> <<>>]

\* Course and Content nodes, which this core never creates or changes.
CourseNodes == <<[id |-> "course-1"]>>
ContentNodes == <<[id |-> "content-1"]>>

CourseRows(id) == {i \in DOMAIN CourseNodes : CourseNodes[i].id = id}
ContentRows(id) == {i \in DOMAIN ContentNodes : ContentNodes[i].id = id}

\* A node is addressed by its label and its position among that label's nodes.
Ref(label, idx) == [label |-> label, idx |-> idx]
Edge(type, from, to) == [type |-> type, from |-> from, to |-> to]

HasEdge(st, e) == \E i \in DOMAIN st.edges : st.edges[i] = e

\* MERGE (x)-[:type]->(y): create the edge unless one exists.
MergeEdge(st, e) ==
    IF HasEdge(st, e) THEN st ELSE [st EXCEPT !.edges = Append(@, e)]

QuestionRows(st, text) == {i \in DOMAIN st.questions : st.questions[i].text = text}
AnswerRows(st, text) == {i \in DOMAIN st.answers : st.answers[i].text = text}
ConceptRows(st, name) == {i \in DOMAIN st.concepts : st.concepts[i].name = name}
DoubtRows(st, key) == {i \in DOMAIN st.doubts : st.doubts[i].queryKey = key}

\* MERGE of one edge per (from, to) pair of the rows.
RECURSIVE MergeEdges(_, _, _)
MergeEdges(st, type, pairs) ==
    IF pairs = {} THEN st
    ELSE LET p == CHOOSE x \in pairs : TRUE
         IN  MergeEdges(MergeEdge(st, Edge(type, p[1], p[2])), type, pairs \ {p})

Refs(label, rows) == {Ref(label, i) : i \in rows}

\* A CREATE in place of the MERGE.
CreateQuestion(st, text) ==
    [st EXCEPT !.questions = Append(@, [text |-> text, embedding |-> NullEmbedding])]

\* MERGE (q:Question {text: $query}): find the node or create it.
MergeQuestion(st, text) ==
    IF QuestionRows(st, text) # {} THEN st
    ELSE [st EXCEPT !.questions = Append(@, [text |-> text, embedding |-> NullEmbedding])]

\* SET q.embedding = $embedding
SetQuestion(st, rows, embedding) ==
    [st EXCEPT !.questions =
        [i \in DOMAIN @ |-> IF i \in rows THEN [@[i] EXCEPT !.embedding = embedding] ELSE @[i]]]

\* MERGE (a:Answer {text: $answer})
MergeAnswer(st, text) ==
    IF AnswerRows(st, text) # {} THEN st
    ELSE [st EXCEPT !.answers = Append(@, [text |-> text, confidence |-> 0, source |-> ""])]

\* SET a.confidence = $confidence, a.source = "AI_GENERATED"
SetAnswer(st, rows, confidence) ==
    [st EXCEPT !.answers =
        [i \in DOMAIN @ |-> IF i \in rows
                            THEN [@[i] EXCEPT !.confidence = confidence, !.source = "AI_GENERATED"]
                            ELSE @[i]]]

\* MERGE (con:Concept {name: ...})
MergeConcept(st, name) ==
    IF ConceptRows(st, name) # {} THEN st
    ELSE [st EXCEPT !.concepts = Append(@, [name |-> name])]

\* UNWIND split($query, ' ') as word WHERE size(word) > 5
ConceptWords(query) == SelectSeq(split(query, <<>>), LAMBDA w : Len(w) > ConceptMinLen)

\* The three merges of the concept part, once per word, in order.
RECURSIVE MergeConcepts(_, _, _, _)
MergeConcepts(st, words, qs, cs) ==
    IF words = <<>> THEN st
    ELSE LET name == capitalize(Head(words))
             s1 == MergeConcept(st, name)
             cons == Refs("Concept", ConceptRows(s1, name))
             s2 == MergeEdges(s1, "RELATES_TO", Refs("Question", qs) \X cons)
             s3 == MergeEdges(s2, "PART_OF", cons \X Refs("Course", cs))
         IN  MergeConcepts(s3, Tail(words), qs, cs)

\* The merge statement of saveToKnowledgeGraph, clause by clause.  A MATCH
\* that finds no node leaves no row, and the clauses after it do nothing;
\* what the clauses before it wrote stays written.
KnowledgeMerge(st, query, answer, confidence, embedding, courseId, contentId) ==
    LET s1 == MergeQuestion(st, query)
        qs == QuestionRows(s1, query)
        s2 == SetQuestion(s1, qs, embedding)
        s3 == MergeAnswer(s2, answer)
        as == AnswerRows(s3, answer)
        s4 == SetAnswer(s3, as, confidence)
        s5 == MergeEdges(s4, "ANSWERS", Refs("Question", qs) \X Refs("Answer", as))
        cs == CourseRows(courseId)
        s6 == MergeEdges(s5, "RELATES_TO", Refs("Question", qs) \X Refs("Course", cs))
        rs == ContentRows(contentId)
        s7 == MergeEdges(s6, "GENERATED_FROM_RESOURCE",
                         Refs("Question", qs) \X Refs("Content", rs))
    IN  IF cs = {} THEN s5
        ELSE IF rs = {} THEN s6
        ELSE MergeConcepts(s7, ConceptWords(query), qs, cs)

(***************************************************************************)
(* getEmbedding                                                            *)
(***************************************************************************)
getEmbeddingTry(text, outcome) ==
    IF outcome = "transport_error"
    THEN [ret |-> NullEmbedding, raised |-> TRUE]
    ELSE [ret |-> IF outcome = "ok" THEN Vector(text) ELSE NullEmbedding,
          raised |-> FALSE]

\* The request made outside the try block.
getEmbeddingNoCatch(text, outcome) == getEmbeddingTry(text, outcome)

getEmbedding(text, outcome) ==
    LET t == getEmbeddingTry(text, outcome)
    IN  IF t.raised THEN [ret |-> NullEmbedding, raised |-> FALSE] ELSE t

(***************************************************************************)
(* saveToKnowledgeGraph                                                    *)
(***************************************************************************)
saveToKnowledgeGraphTry(st, p, outcome, failAt) ==
    LET e == getEmbedding(p.query, outcome)
    IN  IF e.raised THEN Thrown(st, <<"embedding">>)
        ELSE IF ~e.ret.ok THEN Returned(st, Plain("null"), <<"embedding">>)
        ELSE IF failAt = 1 THEN Thrown(st, <<"embedding", "store">>)
        ELSE Returned(KnowledgeMerge(st, p.query, p.answer, p.confidence, e.ret,
                                     p.courseId, p.contentId),
                      Plain("true"), <<"embedding", "store">>)

\* The gate placed at the retrieval threshold instead of the admission one.
saveToKnowledgeGraphGateAt80(st, p, outcome, failAt) ==
    IF p.confidence < RetrievalThreshold THEN Returned(st, Plain("null"), <<>>)
    ELSE LET t == saveToKnowledgeGraphTry(st, p, outcome, failAt)
         IN  IF t.raised THEN Returned(t.st, Plain("false"), t.io) ELSE t

\* The catch reporting success: return true after the try statement.
saveToKnowledgeGraphTrueAfterCatch(st, p, outcome, failAt) ==
    IF p.confidence < AdmissionThreshold THEN Returned(st, Plain("null"), <<>>)
    ELSE LET t == saveToKnowledgeGraphTry(st, p, outcome, failAt)
         IN  IF t.raised THEN Returned(t.st, Plain("true"), t.io) ELSE t

saveToKnowledgeGraph(st, p, outcome, failAt) ==
    IF p.confidence < AdmissionThreshold THEN Returned(st, Plain("null"), <<>>)
    ELSE LET t == saveToKnowledgeGraphTry(st, p, outcome, failAt)
         IN  IF t.raised THEN Returned(t.st, Plain("false"), t.io) ELSE t

(***************************************************************************)
(* The normalised key of searchExistingDoubts and saveDoubtToGraph.        *)
(***************************************************************************)
QueryKey(query, context) ==
    trim(toLowerCase(query)) \o
    (IF context # <<>> THEN <<"|">> \o trim(toLowerCase(context)) ELSE <<>>)

(***************************************************************************)
(* saveDoubtToGraph                                                        *)
(***************************************************************************)
\* A CREATE in place of the MERGE.
CreateDoubt(st, key) ==
    [st EXCEPT !.doubts = Append(@, [queryKey |-> key, query |-> <<>>, context |-> <<>>,
                                     answer |-> "", confidence |-> 0])]

\* MERGE(d: Doubt { queryKey: $queryKey })
MergeDoubt(st, key) ==
    IF DoubtRows(st, key) # {} THEN st
    ELSE [st EXCEPT !.doubts = Append(@, [queryKey |-> key, query |-> <<>>, context |-> <<>>,
                                          answer |-> "", confidence |-> 0])]

\* The SET applied to every Doubt of the store.
SetDoubtEveryRow(st, rows, query, context, answer, confidence) ==
    [st EXCEPT !.doubts =
        [i \in DOMAIN @ |-> [@[i] EXCEPT !.query = query, !.context = context,
                                         !.answer = answer, !.confidence = confidence]]]

\* SET d.query = $query, d.context = $context, d.answer = $answer,
\*     d.confidence = $confidence
SetDoubt(st, rows, query, context, answer, confidence) ==
    [st EXCEPT !.doubts =
        [i \in DOMAIN @ |-> IF i \in rows
                            THEN [@[i] EXCEPT !.query = query, !.context = context,
                                              !.answer = answer, !.confidence = confidence]
                            ELSE @[i]]]

DoubtUpsert(st, key, query, context, answer, confidence, contentId) ==
    LET s1 == MergeDoubt(st, key)
        ds == DoubtRows(s1, key)
        s2 == SetDoubt(s1, ds, query, context, answer, confidence)
    IN  MergeEdges(s2, "RELATES_TO", Refs("Doubt", ds) \X Refs("Content", ContentRows(contentId)))

saveDoubtToGraphTry(st, p, failAt) ==
    LET queryKey == QueryKey(p.query, p.context)
    IN  IF failAt = 1 THEN Thrown(st, <<"store">>)
        ELSE Returned(DoubtUpsert(st, queryKey, trim(p.query), trim(p.context),
                                  p.answer, p.confidence, p.contentId),
                      Plain("undefined"), <<"store">>)

\* The upsert behind the retrieval threshold.
saveDoubtToGraphGated(st, p, failAt) ==
    IF p.confidence < RetrievalThreshold THEN Returned(st, Plain("undefined"), <<>>)
    ELSE LET t == saveDoubtToGraphTry(st, p, failAt)
         IN  IF t.raised THEN Returned(t.st, Plain("undefined"), t.io) ELSE t

saveDoubtToGraph(st, p, failAt) ==
    LET t == saveDoubtToGraphTry(st, p, failAt)
    IN  IF t.raised THEN Returned(t.st, Plain("undefined"), t.io) ELSE t

(***************************************************************************)
(* searchExistingDoubts: the set of results the call can have (LIMIT 1     *)
(* without an order returns any one matching row).                         *)
(***************************************************************************)
Hit(st, i, source) ==
    Value("hit", <<>>, st.doubts[i].answer, st.doubts[i].confidence, source)

\* The content-scoped query without its pattern from the Doubt to the Content.
ContentDoubtRowsAnyContent(st, key, contentId) ==
    {i \in DoubtRows(st, key) : st.doubts[i].confidence >= RetrievalThreshold}

\* MATCH (c:Content {id: $contentId})<-[:RELATES_TO]-(d:Doubt {queryKey: $searchKey})
\* WHERE d.confidence >= 80
ContentDoubtRows(st, key, contentId) ==
    {i \in DoubtRows(st, key) :
        /\ st.doubts[i].confidence >= RetrievalThreshold
        /\ \E c \in ContentRows(contentId) :
              HasEdge(st, Edge("RELATES_TO", Ref("Doubt", i), Ref("Content", c)))}

\* The global query without its confidence floor.
GlobalDoubtRowsNoFloor(st, key) == DoubtRows(st, key)

GlobalDoubtRows(st, key) ==
    {i \in DoubtRows(st, key) : st.doubts[i].confidence >= RetrievalThreshold}

searchExistingDoubtsTry(st, p, failAt) ==
    LET searchKey == QueryKey(p.query, p.context)
        scoped == p.contentId # ""
        io1 == IF scoped THEN <<"store">> ELSE <<>>
        rows1 == IF scoped THEN ContentDoubtRows(st, searchKey, p.contentId) ELSE {}
        rows2 == GlobalDoubtRows(st, searchKey)
        io2 == Append(io1, "store")
    IN  IF scoped /\ failAt = 1 THEN {Thrown(st, io1)}
        ELSE IF rows1 # {}
        THEN {Returned(st, Hit(st, i, "content_knowledge_base"), io1) : i \in rows1}
        ELSE IF failAt = Len(io2) THEN {Thrown(st, io2)}
        ELSE IF rows2 # {}
        THEN {Returned(st, Hit(st, i, "graph_db"), io2) : i \in rows2}
        ELSE {Returned(st, Plain("null"), io2)}

searchExistingDoubts(st, p, failAt) ==
    {IF t.raised THEN Returned(t.st, Plain("null"), t.io) ELSE t :
        t \in searchExistingDoubtsTry(st, p, failAt)}

(***************************************************************************)
(* searchKnowledgeGraph                                                    *)
(***************************************************************************)
\* The similarity score of two vectors, in hundredths (score * 100).  The
\* provider's vectors are known here only by the text they were made from:
\* equal texts score 1.00, texts that differ in case and padding 0.90,
\* unrelated texts 0.40.
Similarity(v, w) ==
    IF v.of = w.of THEN 100
    ELSE IF trim(toLowerCase(v.of)) = trim(toLowerCase(w.of)) THEN 90
    ELSE 40

\* CALL db.index.vector.queryNodes('doubt_vector_index', 5, $embedding)
IndexCandidates(st, embedding) ==
    LET indexed == {i \in DOMAIN st.questions : st.questions[i].embedding.ok}
        score(i) == Similarity(embedding, st.questions[i].embedding)
    IN  {i \in indexed : Cardinality({j \in indexed : score(j) > score(i)}) < TopK}

\* WHERE score >= 0.80  MATCH (node)-[:ANSWERS]->(a:Answer)
SemanticRows(st, embedding) ==
    {r \in IndexCandidates(st, embedding) \X DOMAIN st.answers :
        /\ Similarity(embedding, st.questions[r[1]].embedding) >= SimilarityThreshold
        /\ HasEdge(st, Edge("ANSWERS", Ref("Question", r[1]), Ref("Answer", r[2])))}

\* LIMIT 1 without the ORDER BY.
AnyRows(st, embedding) == SemanticRows(st, embedding)

\* ORDER BY score DESC LIMIT 1
BestRows(st, embedding) ==
    LET score(r) == Similarity(embedding, st.questions[r[1]].embedding)
        rows == SemanticRows(st, embedding)
    IN  {r \in rows : \A x \in rows : score(x) <= score(r)}

NoMatch == Value("nomatch", <<>>, "", 0, "")

\* The rows kept to Questions related to the course of the call.
searchKnowledgeGraphTryInCourse(st, p, outcome, failAt) ==
    LET e == getEmbedding(p.query, outcome)
        rows == {r \in BestRows(st, e.ret) :
                    \E c \in CourseRows(p.courseId) :
                        HasEdge(st, Edge("RELATES_TO", Ref("Question", r[1]), Ref("Course", c)))}
    IN  IF e.raised THEN {Thrown(st, <<"embedding">>)}
        ELSE IF ~e.ret.ok THEN {Returned(st, NoMatch, <<"embedding">>)}
        ELSE IF failAt = 1 THEN {Thrown(st, <<"embedding", "store">>)}
        ELSE IF rows = {} THEN {Returned(st, NoMatch, <<"embedding", "store">>)}
        ELSE {Returned(st,
                       Value("match", st.questions[r[1]].text, st.answers[r[2]].text,
                             Similarity(e.ret, st.questions[r[1]].embedding),
                             "KNOWLEDGE_GRAPH"),
                       <<"embedding", "store">>) : r \in rows}

\* The query takes $embedding alone: courseId is passed as a parameter that
\* the statement does not name.
searchKnowledgeGraphTry(st, p, outcome, failAt) ==
    LET e == getEmbedding(p.query, outcome)
    IN  IF e.raised THEN {Thrown(st, <<"embedding">>)}
        ELSE IF ~e.ret.ok THEN {Returned(st, NoMatch, <<"embedding">>)}
        ELSE IF failAt = 1 THEN {Thrown(st, <<"embedding", "store">>)}
        ELSE IF BestRows(st, e.ret) = {} THEN {Returned(st, NoMatch, <<"embedding", "store">>)}
        ELSE {Returned(st,
                       Value("match", st.questions[r[1]].text, st.answers[r[2]].text,
                             Similarity(e.ret, st.questions[r[1]].embedding),
                             "KNOWLEDGE_GRAPH"),
                       <<"embedding", "store">>) : r \in BestRows(st, e.ret)}

searchKnowledgeGraph(st, p, outcome, failAt) ==
    {IF t.raised THEN Returned(t.st, NoMatch, t.io) ELSE t :
        t \in searchKnowledgeGraphTry(st, p, outcome, failAt)}

(***************************************************************************)
(* calculateConfidence.  Scores are kept in hundredths, which holds every  *)
(* product of the code exactly: weights 0.35 and 0.50 are 35 and 50, and   *)
(* (score / 100) * 20 is score * 20.                                       *)
(***************************************************************************)
Min(a, b) == IF a < b THEN a ELSE b
Max(a, b) == IF a > b THEN a ELSE b

\* Math.floor in place of Math.round.
Floor(h) == h \div 100

\* Math.round of a value given in hundredths: the nearest integer, halves up.
Round(h) == (h + 50) \div 100

\* The value passed through as it is.
Unclamped(x) == x

\* Math.min(100, Math.max(0, x))
Clamp(x) == Min(100, Max(0, x))

\* "rounded" is the code's local finalScore, before the clamp of the value
\* returned.
calculateConfidence(params) ==
    LET aiWeight == IF params.isVerifiedSource THEN 50 ELSE 35
        aiScore == Clamp(params.aiConfidence) * aiWeight
        contextScore == Min(25, (IF params.hasSelectedText THEN 12 ELSE 0)
                              + (IF params.hasContext THEN 8 ELSE 0)
                              + (IF params.hasVisualContext THEN 5 ELSE 0))
        responseScore == IF params.responseLength >= 400 THEN 20
                         ELSE IF params.responseLength >= 200 THEN 15
                         ELSE IF params.responseLength >= 100 THEN 10
                         ELSE 5
        formattingScore == params.hasFormatting.score * 20
        sourceBonus == IF params.isVerifiedSource THEN 10 ELSE 0
        finalScore == Round(aiScore + contextScore * 100 + responseScore * 100
                            + formattingScore + sourceBonus * 100)
    IN  [finalScore |-> Clamp(finalScore),
         rounded |-> finalScore,
         breakdown |->
            [aiConfidence |-> [value |-> Round((aiScore * 100) \div aiWeight),
                               weight |-> aiWeight,
                               contribution |-> Round(aiScore)],
             contextQuality |-> [weight |-> 25, contribution |-> contextScore],
             responseQuality |-> [weight |-> 20, contribution |-> responseScore],
             formattingQuality |-> [weight |-> 20, contribution |-> Round(formattingScore)],
             summary |-> [totalScore |-> Clamp(finalScore),
                          reliability |-> IF finalScore >= 85 THEN "High"
                                          ELSE IF finalScore >= 70 THEN "Good"
                                          ELSE IF finalScore >= 50 THEN "Moderate"
                                          ELSE "Low"]]]

(***************************************************************************)
(* checkFormattingQuality.  A response text is a sequence of lines, each   *)
(* known by the structure it shows:                                        *)
(*   "h3" ### heading     "h4" #### heading    "bullet" - item             *)
(*   "number" 1. item     "bold" **text**      "fence" ``` block ```       *)
(*   "code" `inline`      "formula" [token]    "plain"                     *)
(* What each pattern of the code matches is listed per kind of line: the   *)
(* main-heading pattern /###\s+.+/ also matches inside "#### x", and the   *)
(* inline-code pattern also matches the backticks of a fence.              *)
(***************************************************************************)
Matches(feature) ==
    CASE feature = "mainTitle" -> {"h3", "h4"}
      [] feature = "subtitles" -> {"h4"}
      [] feature = "bulletPoints" -> {"bullet"}
      [] feature = "numberedLists" -> {"number"}
      [] feature = "boldText" -> {"bold"}
      [] feature = "codeBlocks" -> {"fence"}
      [] feature = "inlineCode" -> {"fence", "code"}
      [] feature = "formulas" -> {"formula"}

Has(text, feature) == \E i \in DOMAIN text.lines : text.lines[i] \in Matches(feature)
Count(text, feature) == Cardinality({i \in DOMAIN text.lines : text.lines[i] \in Matches(feature)})

Features ==
    {"mainTitle", "subtitles", "bulletPoints", "numberedLists", "boldText",
     "codeBlocks", "inlineCode", "formulas"}

\* The weights of bold text and fenced code exchanged.
WeightExchanged(feature) ==
    CASE feature \in {"mainTitle", "subtitles"} -> 15
      [] feature \in {"bulletPoints", "numberedLists", "codeBlocks"} -> 10
      [] feature \in {"boldText", "inlineCode", "formulas"} -> 5

\* (hasMainTitle ? 15 : 0) + ... + (hasFormulas ? 5 : 0)
Weight(feature) ==
    CASE feature \in {"mainTitle", "subtitles"} -> 15
      [] feature \in {"bulletPoints", "numberedLists", "boldText"} -> 10
      [] feature \in {"codeBlocks", "inlineCode", "formulas"} -> 5

RECURSIVE SumWeights(_, _)
SumWeights(text, features) ==
    IF features = {} THEN 0
    ELSE LET f == CHOOSE x \in features : TRUE
         IN  (IF Has(text, f) THEN Weight(f) ELSE 0) + SumWeights(text, features \ {f})

\* details: the flags by feature and the two counts; for a missing or empty
\* text the object has no property at all.
checkFormattingQuality(text) ==
    IF text.length = 0 THEN [score |-> 0, details |-> [flags |-> <<>>, counts |-> <<>>]]
    ELSE [score |-> SumWeights(text, Features)
                  + (IF Count(text, "mainTitle") >= 1 THEN 5 ELSE 0)
                  + (IF Count(text, "subtitles") >= 2 THEN 10 ELSE 0),
          details |-> [flags |-> [f \in Features |-> Has(text, f)],
                       counts |-> [c \in {"titleCount", "subtitleCount"} |->
                                      IF c = "titleCount" THEN Count(text, "mainTitle")
                                      ELSE Count(text, "subtitles")]]]

(***************************************************************************)
(* askGroq.  The context string is a sequence of tokens: the sentinel, a   *)
(* space, JSON tokens ("{", "}", "null", "42" and one token per member of  *)
(* an object) and words.                                                   *)
(***************************************************************************)
Sentinel == "STRICT_REGION_CONTEXT:"
TextModel == "llama-3.3-70b-versatile"
VisionModel == "llama-3.2-11b-vision-preview"
Unavailable == "AI Tutor is currently unavailable."

\* The members an object of grounding data can have, with their field.
MemberField(tok) ==
    CASE tok = "ts=1:05" -> "selectedTimestamp"
      [] tok = "seg=intro" -> "transcriptSegment"
      [] tok = "course=sets" -> "courseContext"
      [] OTHER -> ""

MemberValue(tok) ==
    CASE tok = "ts=1:05" -> "1:05"
      [] tok = "seg=intro" -> "intro"
      [] tok = "course=sets" -> "sets"
      [] OTHER -> ""

\* context.includes in place of context.startsWith.
includesSentinel(context) == \E i \in DOMAIN context : context[i] = Sentinel

\* context.startsWith('STRICT_REGION_CONTEXT:')
startsWithSentinel(context) == context # <<>> /\ Head(context) = Sentinel

\* context.replace('STRICT_REGION_CONTEXT: ', ''): the first occurrence of
\* the sentinel followed by a space is taken out.
RECURSIVE replaceSentinel(_)
replaceSentinel(context) ==
    IF Len(context) < 2 THEN context
    ELSE IF context[1] = Sentinel /\ context[2] = " " THEN SubSeq(context, 3, Len(context))
    ELSE <<Head(context)>> \o replaceSentinel(Tail(context))

\* JSON.parse: "error" for text that is no JSON value, else the value: null,
\* a number, or an object with the members given.
JSONparse(text) ==
    LET t == trim(text)
        inner == SubSeq(t, 2, Len(t) - 1)
    IN  IF t = <<"null">> THEN [kind |-> "null", members |-> <<>>]
        ELSE IF t = <<"42">> THEN [kind |-> "number", members |-> <<>>]
        ELSE IF /\ Len(t) >= 2
                /\ t[1] = "{"
                /\ t[Len(t)] = "}"
                /\ \A i \in DOMAIN inner : MemberField(inner[i]) # ""
        THEN [kind |-> "object", members |-> inner]
        ELSE [kind |-> "error", members |-> <<>>]

\* gc.<field> as the template prints it: the member's value, and
\* "undefined" for a field the parsed value does not have.
Field(gc, name) ==
    IF gc.kind = "default" THEN ""
    ELSE IF \E i \in DOMAIN gc.members : MemberField(gc.members[i]) = name
    THEN MemberValue(gc.members[CHOOSE i \in DOMAIN gc.members :
                                    /\ MemberField(gc.members[i]) = name
                                    /\ \A j \in DOMAIN gc.members :
                                          MemberField(gc.members[j]) = name => j <= i])
    ELSE "undefined"

DefaultGrounding == [kind |-> "default", members |-> <<>>]

\* let gc = {...}; try { gc = JSON.parse(rawGrounding); } catch (e) { }
Grounding(context) ==
    LET parsed == JSONparse(replaceSentinel(context))
    IN  IF parsed.kind = "error" THEN DefaultGrounding ELSE parsed

NoPrompt == [mode |-> "none", timestamp |-> "", transcript |-> "", course |-> "",
             search |-> <<>>, language |-> "", structures |-> {}, current |-> <<>>]

\* The keywords of the two classification patterns that occur in a word or
\* phrase, in any letter case ("javascript" holds "java" and "script").
KeywordsIn(text) ==
    CASE text = "code" -> {"code"}
      [] text = "python" -> {"python"}
      [] text = "class" -> {"class"}
      [] text = "classification" -> {"class"}
      [] text = "javascript" -> {"java", "javascript", "script"}
      [] text = "snippet" -> {"snippet"}
      [] text = "python code" -> {"python", "code"}
      [] OTHER -> {}

\* /code|programming|java|python|javascript|script|algorithm|function|class/i
\* on the query, or /code|programming/i on the selected text.
isCodingQuery(in) ==
    \/ \E i \in DOMAIN in.query :
          KeywordsIn(in.query[i]) \cap {"code", "programming", "java", "python", "javascript",
                                        "script", "algorithm", "function", "class"} # {}
    \/ KeywordsIn(in.selectedText) \cap {"code", "programming"} # {}

\* /show\s+code|example\s+in|write\s+a\s+program|snippet/i on the query.
isExplicitCodeRequest(in) ==
    LET q == in.query
        at(i, word) == i \in DOMAIN q /\ q[i] = word
    IN  \/ \E i \in DOMAIN q : "snippet" \in KeywordsIn(q[i])
        \/ \E i \in DOMAIN q : at(i, "show") /\ at(i + 1, "code")
        \/ \E i \in DOMAIN q : at(i, "example") /\ at(i + 1, "in")
        \/ \E i \in DOMAIN q : at(i, "write") /\ at(i + 1, "a") /\ at(i + 2, "program")

\* The system prompt, by the parts that vary.  Reading a property of null
\* throws.
SystemPrompt(in) ==
    IF startsWithSentinel(in.context)
    THEN LET gc == Grounding(in.context)
         IN  IF gc.kind = "null" THEN [raised |-> TRUE, prompt |-> NoPrompt]
             ELSE [raised |-> FALSE,
                   prompt |-> [mode |-> "region",
                               timestamp |-> Field(gc, "selectedTimestamp"),
                               transcript |-> Field(gc, "transcriptSegment"),
                               course |-> Field(gc, "courseContext"),
                               search |-> in.query,
                               language |-> "", structures |-> {}, current |-> <<>>]]
    ELSE [raised |-> FALSE,
          prompt |-> [mode |-> "adaptive", timestamp |-> "", transcript |-> "", course |-> "",
                      search |-> <<>>,
                      structures |-> {"Concept Question", "Coding Question"},
                      language |-> IF in.language = "hindi" THEN "hinglish" ELSE "english",
                      current |-> IF in.selectedText # "" THEN <<in.selectedText>>
                                  ELSE IF in.context # <<>> THEN in.context
                                  ELSE <<"General curriculum">>]]

\* GROQ_API_KEY || userKey
ActiveApiKeyEnvFirst(userKey, envKey) == IF envKey # "" THEN envKey ELSE userKey

\* userKey || GROQ_API_KEY
ActiveApiKey(userKey, envKey) == IF userKey # "" THEN userKey ELSE envKey

\* The test without its content-type conjunct.
IsVisionModeAnyType(in) == in.visualContext /\ in.contentUrl # ""

\* visualContext && contentUrl && contentType === 'image'
IsVisionMode(in) == in.visualContext /\ in.contentUrl # "" /\ in.contentType = "image"

ImageRequest(url) ==
    [to |-> "image", url |-> url, model |-> "", key |-> "", messages |-> ""]

ModelRequest(model, key, messages) ==
    [to |-> "model", url |-> "", model |-> model, key |-> key, messages |-> messages]

NoResult == [explanation |-> [lines |-> <<>>, length |-> 0], confidence |-> 0, source |-> ""]

\* catch (error) { throw error; }: the cause passed on as it is.
FailedRethrow(cause, prompt, requests) ==
    [raised |-> TRUE, error |-> cause, cause |-> cause, prompt |-> prompt,
     requests |-> requests, ret |-> NoResult]

\* catch (error) { throw new Error('AI Tutor is currently unavailable.'); }
Failed(cause, prompt, requests) ==
    [raised |-> TRUE, error |-> Unavailable, cause |-> cause, prompt |-> prompt,
     requests |-> requests, ret |-> NoResult]

\* The image fetch outside the inner try block: its failure ends the call.
BuildMessagesNoCatch(fetch, image) ==
    IF fetch = <<>> THEN [raised |-> FALSE, messages |-> "text"]
    ELSE IF image = "ok" THEN [raised |-> FALSE, messages |-> "text+image"]
    ELSE [raised |-> TRUE, messages |-> ""]

\* The message list: one user message with the prompt, the query and the
\* image when the image was fetched and encoded; the system prompt and the
\* user query otherwise, also when fetching or encoding threw.
BuildMessages(fetch, image) ==
    IF fetch # <<>> /\ image = "ok" THEN [raised |-> FALSE, messages |-> "text+image"]
    ELSE [raised |-> FALSE, messages |-> "text"]

\* hasSelectedText taken from the context.
ConfidenceParamsByContext(in, response) ==
    [aiConfidence |-> 85,
     hasContext |-> in.context # <<>>,
     hasSelectedText |-> in.context # <<>>,
     hasVisualContext |-> in.visualContext,
     responseLength |-> response.length,
     hasFormatting |-> checkFormattingQuality(response),
     isVerifiedSource |-> FALSE]

\* The parameters of the calculateConfidence call: aiConfidence: 85,
\* hasContext: !!context, hasSelectedText: !!selectedText,
\* hasVisualContext: !!visualContext, responseLength and hasFormatting of
\* the model's text; isVerifiedSource is not passed.
ConfidenceParams(in, response) ==
    [aiConfidence |-> 85,
     hasContext |-> in.context # <<>>,
     hasSelectedText |-> in.selectedText # "",
     hasVisualContext |-> in.visualContext,
     responseLength |-> response.length,
     hasFormatting |-> checkFormattingQuality(response),
     isVerifiedSource |-> FALSE]

\* One call of askGroq with the key of the process (envKey), what the image
\* fetch does (image), what the model call does (outcome) and the text the
\* model answers with (response).
askGroq(in, envKey, image, outcome, response) ==
    LET activeApiKey == ActiveApiKey(in.userKey, envKey)
        isVisionMode == IsVisionMode(in)
        built == SystemPrompt(in)
        fetch == IF isVisionMode /\ in.contentUrl # "" THEN <<ImageRequest(in.contentUrl)>>
                 ELSE <<>>
        built_messages == BuildMessages(fetch, image)
        messages == built_messages.messages
        requests == Append(fetch,
                           ModelRequest(IF isVisionMode THEN VisionModel ELSE TextModel,
                                        activeApiKey, messages))
        confidenceResult == calculateConfidence(ConfidenceParams(in, response))
    IN  IF activeApiKey = "" THEN Failed("NO_API_KEY", NoPrompt, <<>>)
        ELSE IF built.raised THEN Failed("TypeError", NoPrompt, <<>>)
        ELSE IF built_messages.raised THEN Failed("image", built.prompt, fetch)
        ELSE IF outcome \in {"413", "429"} THEN Failed("API_LIMIT_REACHED", built.prompt, requests)
        ELSE IF outcome = "401" THEN Failed("INVALID_API_KEY", built.prompt, requests)
        ELSE IF outcome = "timeout" THEN Failed("timeout", built.prompt, requests)
        ELSE IF outcome = "bad_body" THEN Failed("TypeError", built.prompt, requests)
        ELSE [raised |-> FALSE, error |-> "", cause |-> "", prompt |-> built.prompt,
              requests |-> requests,
              ret |-> [explanation |-> response,
                       confidence |-> confidenceResult.finalScore,
                       source |-> IF isVisionMode THEN "groq_vision" ELSE "groq_llama"]]

(***************************************************************************)
(* The store machine: one action per exported operation.  "last" is the    *)
(* call that ended last: its arguments, what the provider and the store    *)
(* did, and its outcome.                                                   *)
(***************************************************************************)
Params(query, context, answer, confidence, courseId, contentId) ==
    [query |-> query, context |-> context, answer |-> answer,
     confidence |-> confidence, courseId |-> courseId, contentId |-> contentId]

NoParams == Params(<<>>, <<>>, "", 0, "", "")

\* The requests a call can meet: the provider's answer and the failing store
\* query are drawn only for requests the call issues.
Consumed(o, outcome, failAt) ==
    /\ (outcome # "ok" => \E i \in DOMAIN o.io : o.io[i] = "embedding")
    /\ failAt <= Cardinality({i \in DOMAIN o.io : o.io[i] = "store"})

Call(op, p, outcome, failAt, resave, o) ==
    [op |-> op, p |-> p, embedding |-> outcome, failAt |-> failAt,
     resave |-> resave, ret |-> o.ret, raised |-> o.raised, io |-> o.io]

\* Whether the store already holds the question, the answer and the edge
\* between them.
Saved(st, query, answer) ==
    \E q \in QuestionRows(st, query), a \in AnswerRows(st, answer) :
        HasEdge(st, Edge("ANSWERS", Ref("Question", q), Ref("Answer", a)))

NoAsk == [op |-> "none"]
NoConf == [op |-> "none"]
\* No resolution request in flight.
NoResolve == <<>>
\* No save of a Doubt recorded.
NoLog == {}

Init ==
    /\ store = EmptyStore
    /\ last = Call("none", NoParams, "ok", 0, FALSE,
                   Returned(EmptyStore, Plain("undefined"), <<>>))
    /\ calls = 0
    /\ log = NoLog
    /\ resolve = NoResolve
    /\ ask = NoAsk
    /\ conf = NoConf

\* The three operations of the doubt cache and of admission are given the
\* pools their arguments are drawn from; they leave the log to the machine
\* that uses them.
SaveToKnowledgeGraphOn(queries, courseIds, contentIds) ==
    /\ \E query \in queries, answer \in AnswerPool, confidence \in ConfidencePool,
          courseId \in courseIds, contentId \in contentIds,
          outcome \in EmbeddingOutcomes, failAt \in FailAtSave :
          LET p == Params(query, <<>>, answer, confidence, courseId, contentId)
              o == saveToKnowledgeGraph(store, p, outcome, failAt)
          IN  /\ (confidence < AdmissionThreshold => outcome = "ok" /\ failAt = 0)
              /\ (outcome # "ok" => failAt = 0)
              /\ store' = o.st
              /\ last' = Call("saveToKnowledgeGraph", p, outcome, failAt,
                              Saved(store, query, answer), o)
    /\ calls' = calls + 1
    /\ UNCHANGED <<ask, conf, resolve>>

SaveToKnowledgeGraph ==
    SaveToKnowledgeGraphOn(QueryPool, CourseIdPool, ContentIdPool) /\ UNCHANGED log

SaveDoubtToGraphOn(queries, contexts, contentIds) ==
    /\ \E query \in queries, context \in contexts, answer \in AnswerPool,
          confidence \in DoubtConfidencePool, contentId \in contentIds,
          failAt \in FailAtSave :
          LET p == Params(query, context, answer, confidence, "", contentId)
              o == saveDoubtToGraph(store, p, failAt)
          IN  /\ Consumed(o, "ok", failAt)
              /\ store' = o.st
              /\ last' = Call("saveDoubtToGraph", p, "ok", failAt, FALSE, o)
    /\ calls' = calls + 1
    /\ UNCHANGED <<ask, conf, resolve>>

SaveDoubtToGraph ==
    SaveDoubtToGraphOn(QueryPool, ContextPool, ContentIdPool) /\ UNCHANGED log

SearchExistingDoubtsOn(queries, contexts, contentIds) ==
    /\ \E query \in queries, context \in contexts, contentId \in contentIds,
          failAt \in FailAtSearch :
          LET p == Params(query, context, "", 0, "", contentId)
          IN  \E o \in searchExistingDoubts(store, p, failAt) :
                  /\ Consumed(o, "ok", failAt)
                  /\ store' = o.st
                  /\ last' = Call("searchExistingDoubts", p, "ok", failAt, FALSE, o)
    /\ calls' = calls + 1
    /\ UNCHANGED <<ask, conf, resolve>>

SearchExistingDoubts ==
    SearchExistingDoubtsOn(QueryPool, ContextPool, ContentIdPool) /\ UNCHANGED log

SearchKnowledgeGraph ==
    /\ \E query \in QueryPool, courseId \in CourseIdPool,
          outcome \in EmbeddingOutcomes, failAt \in FailAtSave :
          LET p == Params(query, <<>>, "", 0, courseId, "")
          IN  \E o \in searchKnowledgeGraph(store, p, outcome, failAt) :
                  /\ Consumed(o, outcome, failAt)
                  /\ store' = o.st
                  /\ last' = Call("searchKnowledgeGraph", p, outcome, failAt, FALSE, o)
    /\ calls' = calls + 1
    /\ UNCHANGED <<ask, conf, resolve, log>>

GetEmbedding ==
    /\ \E query \in QueryPool, outcome \in EmbeddingOutcomes :
          LET e == getEmbedding(query, outcome)
              v == IF e.ret.ok THEN Value("vector", e.ret.of, "", 0, "") ELSE Plain("null")
              o == IF e.raised THEN Thrown(store, <<"embedding">>)
                   ELSE Returned(store, v, <<"embedding">>)
          IN  last' = Call("getEmbedding", Params(query, <<>>, "", 0, "", ""),
                           outcome, 0, FALSE, o)
    /\ calls' = calls + 1
    /\ UNCHANGED <<store, ask, conf, resolve, log>>

\* The knowledge-graph machine.
NextKG ==
    \/ calls < MaxCalls /\ SaveToKnowledgeGraph
    \/ calls < MaxCalls /\ SearchKnowledgeGraph

SpecKG == Init /\ [][NextKG]_vars

\* The doubt-cache machine.
NextDoubt ==
    \/ calls < MaxCalls /\ SaveDoubtToGraph
    \/ calls < MaxCalls /\ SearchExistingDoubts

SpecDoubt == Init /\ [][NextDoubt]_vars

\* The round-trip machine: saves and searches of the doubt cache with
\* questions and contexts that differ in letter case and in white space at
\* their ends; a context can be white space only.
CtxBlank == <<" ">>
CtxSetsPadded == <<" ","s","E","T","S">>
RoundTripQueries == {QSorted, QSortedPadded}
RoundTripContexts == {CtxNone, CtxBlank, CtxSets, CtxSetsPadded}
RoundTripContentIds == {"", "content-1"}

NextRoundTrip ==
    \/ calls < MaxCalls
          /\ SaveDoubtToGraphOn(RoundTripQueries, RoundTripContexts, RoundTripContentIds)
          /\ UNCHANGED log
    \/ calls < MaxCalls
          /\ SearchExistingDoubtsOn(RoundTripQueries, RoundTripContexts, RoundTripContentIds)
          /\ UNCHANGED log

SpecRoundTrip == Init /\ [][NextRoundTrip]_vars

\* The key machine: saves and searches of the doubt cache with queries that
\* hold the key's separator and with a whitespace-only context.
KeyQueries == {<<"a">>, <<"a","|">>, <<"a","|","b">>}
KeyContexts == {CtxNone, CtxBlank, <<"b">>}

NextKeys ==
    \/ calls < MaxCalls
          /\ SaveDoubtToGraphOn(KeyQueries, KeyContexts, {""})
          /\ UNCHANGED log
    \/ calls < MaxCalls
          /\ SearchExistingDoubtsOn(KeyQueries, KeyContexts, {""})
          /\ UNCHANGED log

SpecKeys == Init /\ [][NextKeys]_vars

\* The cache machine: saves and searches of the doubt cache for one question
\* with and without a content, and admitted saves.  The log keeps, for each key and
\* contentId, the answer of the latest saveDoubtToGraph call the store
\* accepted.
MaxCacheCalls == 3

CacheQueries == {QSorted}
CacheContentIds == {"", "content-1"}

Logged(lg, call) ==
    LET key == QueryKey(call.p.query, call.p.context)
    IN  IF call.failAt # 0 THEN lg
        ELSE {e \in lg : e.key # key \/ e.contentId # call.p.contentId}
             \cup {[key |-> key, contentId |-> call.p.contentId, answer |-> call.p.answer]}

NextCache ==
    \/ calls < MaxCacheCalls
          /\ SaveDoubtToGraphOn(CacheQueries, ContextPool, CacheContentIds)
          /\ log' = Logged(log, last')
    \/ calls < MaxCacheCalls
          /\ SearchExistingDoubtsOn(CacheQueries, ContextPool, CacheContentIds)
          /\ UNCHANGED log
    \/ calls < MaxCacheCalls
          /\ SaveToKnowledgeGraphOn(CacheQueries, {"course-1"}, {""})
          /\ UNCHANGED log

SpecCache == Init /\ [][NextCache]_vars

\* The semantic-search machine: searches of a knowledge graph that admitted
\* saves have filled.
MaxSeeds == 2

RECURSIVE SeededStores(_)
SeededStores(n) ==
    IF n = 0 THEN {EmptyStore}
    ELSE LET before == SeededStores(n - 1)
         IN  before \cup
             {saveToKnowledgeGraph(st, Params(query, <<>>, answer, 90, "course-1", "content-1"),
                                   "ok", 0).st :
                 st \in before, query \in QueryPool, answer \in AnswerPool}

InitSearch ==
    /\ store \in SeededStores(MaxSeeds)
    /\ last = Call("none", NoParams, "ok", 0, FALSE,
                   Returned(EmptyStore, Plain("undefined"), <<>>))
    /\ calls = 0
    /\ log = NoLog
    /\ resolve = NoResolve
    /\ ask = NoAsk
    /\ conf = NoConf

NextSearch == calls < MaxCallsAll /\ SearchKnowledgeGraph

SpecSearch == InitSearch /\ [][NextSearch]_vars

\* All four operations on one store.
Next ==
    \/ calls < MaxCallsAll /\ SaveToKnowledgeGraph
    \/ calls < MaxCallsAll /\ SaveDoubtToGraph
    \/ calls < MaxCallsAll /\ SearchExistingDoubts
    \/ calls < MaxCallsAll /\ SearchKnowledgeGraph
    \/ calls < MaxCallsAll /\ GetEmbedding

Spec == Init /\ [][Next]_vars

(***************************************************************************)
(* Claims about the knowledge-graph machine (SpecKG).                      *)
(***************************************************************************)
IsCall(op) == last.op = op
Step(op) == calls' # calls /\ last'.op = op

AnswersEdges(st) == {i \in DOMAIN st.edges : st.edges[i].type = "ANSWERS"}

\* C1: a saveToKnowledgeGraph call with confidence < 85 issues no embedding
\* request and no store query and leaves the store as it was; Question,
\* Answer and Concept nodes appear only in calls with confidence >= 85, and
\* every Answer node's confidence is >= 85.
C1_GateStep ==
    (Step("saveToKnowledgeGraph") /\ last'.p.confidence < 85)
        => (store' = store /\ last'.io = <<>>)

C1_WriteStep ==
    (\/ store'.questions # store.questions
     \/ store'.answers # store.answers
     \/ store'.concepts # store.concepts)
        => (Step("saveToKnowledgeGraph") /\ last'.p.confidence >= 85)

C1_AdmissionGate ==
    /\ [](\A i \in DOMAIN store.answers : store.answers[i].confidence >= 85)
    /\ [][C1_GateStep /\ C1_WriteStep]_vars

\* A call below the threshold made on a store that already holds an answer.
C1_Witness ==
    /\ IsCall("saveToKnowledgeGraph")
    /\ last.p.confidence = 84
    /\ last.ret.kind = "null"
    /\ last.io = <<>>
    /\ store.answers # <<>>

\* C3: after a successful saveToKnowledgeGraph the store holds exactly one
\* Question node with the query's text, exactly one Answer node with the
\* answer's text and exactly one ANSWERS edge between them; a call that
\* finds all three adds no Question, no Answer and no ANSWERS edge.
C3_ExactlyOne ==
    (IsCall("saveToKnowledgeGraph") /\ last.ret.kind = "true")
        => /\ Cardinality(QuestionRows(store, last.p.query)) = 1
           /\ Cardinality(AnswerRows(store, last.p.answer)) = 1
           /\ \A q \in QuestionRows(store, last.p.query), a \in AnswerRows(store, last.p.answer) :
                 Cardinality({i \in AnswersEdges(store) :
                                 /\ store.edges[i].from = Ref("Question", q)
                                 /\ store.edges[i].to = Ref("Answer", a)}) = 1

C3_ResaveStep ==
    (Step("saveToKnowledgeGraph") /\ last'.resave /\ last'.ret.kind = "true")
        => /\ Len(store'.questions) = Len(store.questions)
           /\ Len(store'.answers) = Len(store.answers)
           /\ Cardinality(AnswersEdges(store')) = Cardinality(AnswersEdges(store))

HoldsEdge(st, type, fromLabel, froms, toLabel, tos) ==
    \E f \in froms, t \in tos : HasEdge(st, Edge(type, Ref(fromLabel, f), Ref(toLabel, t)))

C4_Admitted ==
    /\ IsCall("saveToKnowledgeGraph")
    /\ last.p.confidence >= 85
    /\ last.embedding = "ok"
    /\ last.failAt = 0
    /\ CourseRows(last.p.courseId) # {}

C4_CoreWritten ==
    LET qs == QuestionRows(store, last.p.query)
        as == AnswerRows(store, last.p.answer)
        cs == CourseRows(last.p.courseId)
    IN  /\ last.ret.kind = "true"
        /\ qs # {}
        /\ \A q \in qs : store.questions[q].embedding = Vector(last.p.query)
        /\ as # {}
        /\ \A a \in as : /\ store.answers[a].confidence = last.p.confidence
                         /\ store.answers[a].source = "AI_GENERATED"
        /\ HoldsEdge(store, "ANSWERS", "Question", qs, "Answer", as)
        /\ HoldsEdge(store, "RELATES_TO", "Question", qs, "Course", cs)
        /\ (HoldsEdge(store, "GENERATED_FROM_RESOURCE", "Question", qs,
                      "Content", DOMAIN ContentNodes)
              => ContentRows(last.p.contentId) # {})

C4_ConceptsWritten ==
    LET qs == QuestionRows(store, last.p.query)
        cs == CourseRows(last.p.courseId)
        words == ConceptWords(last.p.query)
    IN  \A w \in DOMAIN words :
            LET cons == ConceptRows(store, capitalize(words[w]))
            IN  /\ cons # {}
                /\ HoldsEdge(store, "RELATES_TO", "Question", qs, "Concept", cons)
                /\ HoldsEdge(store, "PART_OF", "Concept", cons, "Course", cs)

C4_FullMerge == C4_Admitted => (C4_CoreWritten /\ C4_ConceptsWritten)

\* C16 as claimed: saveToKnowledgeGraph returns a boolean, false when the
\* confidence is below 85, when no embedding is obtained and when the store
\* fails, true only when the merge statement ran without error.
C16_Executed ==
    /\ last.p.confidence >= 85
    /\ last.embedding = "ok"
    /\ last.failAt = 0

C16_BooleanReport ==
    IsCall("saveToKnowledgeGraph") =>
        /\ last.ret.kind \in {"true", "false"}
        /\ last.ret.kind = "true" <=> C16_Executed

\* C16 as amended: saveToKnowledgeGraph returns true exactly when the merge
\* statement ran without error; it returns null when the confidence is below
\* 85 and when no embedding is obtained, and false when the store fails.
C16_AdmissionReport ==
    IsCall("saveToKnowledgeGraph") =>
        /\ last.ret.kind \in {"true", "false", "null"}
        /\ last.ret.kind = "true" <=> C16_Executed
        /\ last.ret.kind = "true" => last.io = <<"embedding", "store">>
        /\ last.ret.kind = "null" <=> (last.p.confidence < 85 \/ last.embedding # "ok")
        /\ last.ret.kind = "false"
              <=> (last.p.confidence >= 85 /\ last.embedding = "ok" /\ last.failAt = 1)

\* A call with confidence 90 for which the provider gave no embedding.
C16_Witness ==
    /\ IsCall("saveToKnowledgeGraph")
    /\ last.p.confidence = 90
    /\ last.embedding = "success_false"
    /\ last.io = <<"embedding">>
    /\ last.ret.kind = "null"

C14_Score(q) == Similarity(Vector(last.p.query), store.questions[q].embedding)

C14_Answers(q) ==
    {a \in DOMAIN store.answers :
        \E e \in DOMAIN store.edges :
            store.edges[e] = [type |-> "ANSWERS", from |-> [label |-> "Question", idx |-> q],
                              to |-> [label |-> "Answer", idx |-> a]]}

C14_Candidates ==
    {q \in IndexCandidates(store, Vector(last.p.query)) :
        C14_Score(q) >= 80 /\ C14_Answers(q) # {}}

C14_SemanticMatch ==
    IsCall("searchKnowledgeGraph") =>
        /\ last.ret.kind \in {"match", "nomatch"}
        /\ last.ret.kind = "match"
              <=> (last.embedding = "ok" /\ last.failAt = 0 /\ C14_Candidates # {})
        /\ last.ret.kind = "match" =>
              /\ \E q \in C14_Candidates :
                    /\ \A x \in C14_Candidates : C14_Score(x) <= C14_Score(q)
                    /\ last.ret.question = store.questions[q].text
                    /\ last.ret.confidence = C14_Score(q)
                    /\ \E a \in C14_Answers(q) : last.ret.answer = store.answers[a].text
              /\ last.ret.confidence >= 80
              /\ last.ret.source = "KNOWLEDGE_GRAPH"
        /\ last.ret.kind = "nomatch" => (last.ret.confidence = 0 /\ last.ret.source = "")
        /\ last.embedding # "ok" => last.io = <<"embedding">>

\* A search whose query scores 1.00 on one stored Question and 0.90 on
\* another, both with answers.
C14_Witness ==
    /\ IsCall("searchKnowledgeGraph")
    /\ last.ret.kind = "match"
    /\ last.ret.confidence = 100
    /\ \E q \in C14_Candidates : C14_Score(q) = 90

\* C29: the result of searchKnowledgeGraph does not depend on courseId: the
\* call made with another courseId on the same store, with the same query,
\* embedding and store outcome, has the same results.
C29_Results(courseId) ==
    {[ret |-> o.ret, st |-> o.st, io |-> o.io] :
        o \in searchKnowledgeGraph(store, [last.p EXCEPT !.courseId = courseId],
                                   last.embedding, last.failAt)}

C29_CourseIndependent ==
    IsCall("searchKnowledgeGraph") =>
        /\ [ret |-> last.ret, st |-> store, io |-> last.io] \in C29_Results(last.p.courseId)
        /\ \A courseId \in CourseIdPool : C29_Results(courseId) = C29_Results(last.p.courseId)

\* A search for course-x that matches a Question related to course-1 only.
C29_Witness ==
    /\ IsCall("searchKnowledgeGraph")
    /\ last.p.courseId = "course-x"
    /\ last.ret.kind = "match"
    /\ CourseRows("course-x") = {}
    /\ \A q \in QuestionRows(store, last.ret.question) :
          HasEdge(store, Edge("RELATES_TO", Ref("Question", q), Ref("Course", 1)))

(***************************************************************************)
(* Claims about the doubt-cache machine (SpecDoubt).                       *)
(***************************************************************************)
LastKey == QueryKey(last.p.query, last.p.context)

\* C2: a result of searchExistingDoubts has confidence >= 80, and when every
\* Doubt with the exact key has confidence < 80 the result is null, with and
\* without a contentId.
C2_RetrievalFloor ==
    IsCall("searchExistingDoubts")
        => /\ (last.ret.kind = "hit" => last.ret.confidence >= 80)
           /\ ((\A i \in DoubtRows(store, LastKey) : store.doubts[i].confidence < 80)
                 => last.ret.kind = "null")

\* A content-scoped search, with a working store, for a key whose Doubt is
\* linked to the content and has confidence 79.
C2_Witness ==
    /\ IsCall("searchExistingDoubts")
    /\ last.p.contentId = "content-1"
    /\ last.failAt = 0
    /\ last.ret.kind = "null"
    /\ \E i \in DoubtRows(store, LastKey) :
          /\ store.doubts[i].confidence = 79
          /\ HasEdge(store, Edge("RELATES_TO", Ref("Doubt", i), Ref("Content", 1)))

\* C13: a searchExistingDoubts call the store answers returns, when a
\* contentId is given and a Doubt with the exact key and confidence >= 80 is
\* linked to that content, the answer and confidence of such a Doubt with
\* source "content_knowledge_base"; otherwise, when a Doubt with the exact key
\* and confidence >= 80 exists, the answer and confidence of such a Doubt with
\* source "graph_db"; and null only when there is neither.
C13_Linked(i) ==
    \E c \in DOMAIN ContentNodes :
        /\ ContentNodes[c].id = last.p.contentId
        /\ \E e \in DOMAIN store.edges :
              store.edges[e] = [type |-> "RELATES_TO", from |-> [label |-> "Doubt", idx |-> i],
                                to |-> [label |-> "Content", idx |-> c]]

C13_Global ==
    {i \in DOMAIN store.doubts : /\ store.doubts[i].queryKey = LastKey
                                 /\ store.doubts[i].confidence >= 80}

C13_Scoped == IF last.p.contentId = "" THEN {} ELSE {i \in C13_Global : C13_Linked(i)}

C13_From(rows, source) ==
    /\ last.ret.kind = "hit"
    /\ last.ret.source = source
    /\ \E i \in rows : /\ last.ret.answer = store.doubts[i].answer
                       /\ last.ret.confidence = store.doubts[i].confidence

C13_ScopeOrder ==
    (IsCall("searchExistingDoubts") /\ last.failAt = 0) =>
        IF C13_Scoped # {} THEN C13_From(C13_Scoped, "content_knowledge_base")
        ELSE IF C13_Global # {} THEN C13_From(C13_Global, "graph_db")
        ELSE last.ret.kind = "null"

\* A search with a contentId for a key whose Doubt is not linked to that
\* content: the content-scoped query misses and the global one answers.
C13_Witness ==
    /\ IsCall("searchExistingDoubts")
    /\ last.p.contentId = "content-1"
    /\ last.failAt = 0
    /\ C13_Scoped = {}
    /\ C13_Global # {}
    /\ last.ret.source = "graph_db"
    /\ last.io = <<"store", "store">>

\* C15: the store never holds two Doubts with one queryKey; a
\* saveDoubtToGraph call the store accepts, whatever its confidence, leaves
\* the Doubt of its key with the call's (trimmed) query and context, its
\* answer and its confidence and every other Doubt as it was, and no other
\* step changes a Doubt.
C15_OnePerKey ==
    \A i, j \in DOMAIN store.doubts :
        store.doubts[i].queryKey = store.doubts[j].queryKey => i = j

C15_Others(st, key) ==
    {st.doubts[i] : i \in {j \in DOMAIN st.doubts : st.doubts[j].queryKey # key}}

C15_UpsertStep ==
    IF Step("saveDoubtToGraph") /\ last'.failAt = 0
    THEN LET key == QueryKey(last'.p.query, last'.p.context)
         IN  /\ \E i \in DOMAIN store'.doubts :
                   store'.doubts[i] = [queryKey |-> key,
                                       query |-> trim(last'.p.query),
                                       context |-> trim(last'.p.context),
                                       answer |-> last'.p.answer,
                                       confidence |-> last'.p.confidence]
             /\ C15_Others(store', key) = C15_Others(store, key)
    ELSE store'.doubts = store.doubts

C15_UpsertAlways == []C15_OnePerKey /\ [][C15_UpsertStep]_vars

\* A save with confidence 79 that replaced the answer and confidence of a
\* Doubt saved with confidence 80.
C15_Witness ==
    /\ IsCall("saveDoubtToGraph")
    /\ calls = 2
    /\ last.failAt = 0
    /\ last.p.confidence = 79
    /\ Len(store.doubts) = 1
    /\ store.doubts[1].confidence = 79
    /\ store.doubts[1].answer = last.p.answer

(***************************************************************************)
(* Claims about the round-trip machine (SpecRoundTrip).                    *)
(***************************************************************************)
\* C19: when the store holds a Doubt with confidence >= 80 whose query and
\* context equal those of a searchExistingDoubts call up to letter case and
\* white space at the ends, and the store answers the search, the search
\* returns the answer and the confidence of that Doubt.
C19_Same(s, t) == trim(toLowerCase(s)) = trim(toLowerCase(t))

C19_Written ==
    {i \in DOMAIN store.doubts :
        /\ store.doubts[i].confidence >= 80
        /\ C19_Same(store.doubts[i].query, last.p.query)
        /\ C19_Same(store.doubts[i].context, last.p.context)}

C19_RoundTrip ==
    (IsCall("searchExistingDoubts") /\ last.failAt = 0) =>
        \A i \in C19_Written :
            /\ last.ret.kind = "hit"
            /\ last.ret.answer = store.doubts[i].answer
            /\ last.ret.confidence = store.doubts[i].confidence

(***************************************************************************)
(* Claims about the key machine (SpecKeys).                                *)
(***************************************************************************)
\* C26: two (query, context) pairs whose lowercase-trimmed query or
\* lowercase-trimmed context differ never share a queryKey, so the Doubt a
\* search returns was saved for a pair with the search's normalised query and
\* normalised context.
C26_Normal(query, context) == <<trim(toLowerCase(query)), trim(toLowerCase(context))>>

C26_KeyInjective ==
    (IsCall("searchExistingDoubts") /\ last.ret.kind = "hit")
        => \E i \in DOMAIN store.doubts :
              /\ store.doubts[i].answer = last.ret.answer
              /\ C26_Normal(store.doubts[i].query, store.doubts[i].context)
                    = C26_Normal(last.p.query, last.p.context)

(***************************************************************************)
(* Claims about the cache machine (SpecCache).                             *)
(***************************************************************************)
\* Whether a search for the question with the context, asked of a working
\* store, returns an answer.
C23_Hit(st, context) ==
    \A o \in searchExistingDoubts(st, Params(QSorted, context, "", 0, "", ""), 0) :
        o.ret.kind = "hit"

\* C23 as claimed: a key for which searchExistingDoubts returns an answer
\* keeps returning one after every saveDoubtToGraph and saveToKnowledgeGraph
\* call.
C23_HitsStable ==
    [][\A context \in ContextPool : C23_Hit(store, context) => C23_Hit(store', context)]_vars

\* C23 as amended: a key for which searchExistingDoubts returns an answer
\* keeps returning one after every saveToKnowledgeGraph call and after every
\* saveDoubtToGraph call but one for that key with confidence below 80.
C23_Evicts(context) ==
    /\ Step("saveDoubtToGraph")
    /\ QueryKey(last'.p.query, last'.p.context) = QueryKey(QSorted, context)
    /\ last'.p.confidence < 80

C23_HitsStableUnlessOverwritten ==
    [][\A context \in ContextPool :
          (C23_Hit(store, context) /\ ~C23_Evicts(context)) => C23_Hit(store', context)]_vars

\* A save with confidence 79 for one key on a store whose Doubt of another
\* key is still returned.
C23_Witness ==
    /\ IsCall("saveDoubtToGraph")
    /\ last.failAt = 0
    /\ last.p.confidence = 79
    /\ last.p.context = CtxSets
    /\ C23_Hit(store, CtxNone)
    /\ ~C23_Hit(store, CtxSets)

\* C25: the answer a search for contentId X returns with the content-scoped
\* label is the answer of the latest saveDoubtToGraph call made for that key
\* with contentId X.
C25_ScopedFaithful ==
    (/\ IsCall("searchExistingDoubts")
     /\ last.ret.kind = "hit"
     /\ last.ret.source = "content_knowledge_base")
        => \E e \in log :
              /\ e.key = QueryKey(last.p.query, last.p.context)
              /\ e.contentId = last.p.contentId
              /\ e.answer = last.ret.answer

(***************************************************************************)
(* Claims about all the operations (Spec).                                 *)
(***************************************************************************)
\* C9: whatever the embedding provider and the store do, getEmbedding,
\* searchExistingDoubts, searchKnowledgeGraph, saveToKnowledgeGraph and
\* saveDoubtToGraph do not throw; a call that met a failure returns its
\* miss value: null, {match: false, confidence: 0}, null or false, nothing.
C9_Failed == last.embedding # "ok" \/ last.failAt # 0

C9_FailuresAbsorbed ==
    /\ ~last.raised
    /\ (IsCall("getEmbedding") /\ C9_Failed) => last.ret = Plain("null")
    /\ (IsCall("searchExistingDoubts") /\ C9_Failed) => last.ret = Plain("null")
    /\ (IsCall("searchKnowledgeGraph") /\ C9_Failed)
          => (last.ret.kind = "nomatch" /\ last.ret.confidence = 0)
    /\ (IsCall("saveToKnowledgeGraph") /\ C9_Failed)
          => last.ret \in {Plain("null"), Plain("false")}
    /\ (IsCall("saveDoubtToGraph") /\ C9_Failed) => last.ret = Plain("undefined")

\* A saveToKnowledgeGraph call whose merge statement failed.
C9_Witness ==
    /\ IsCall("saveToKnowledgeGraph")
    /\ last.failAt = 1
    /\ last.io = <<"embedding", "store">>
    /\ last.ret = Plain("false")

(***************************************************************************)
(* The scorer machine: calculateConfidence applied to drawn parameters.    *)
(***************************************************************************)
AiConfidencePool == {-10, 0, 40, 85, 100, 150}
ResponseLengthPool == {0, 99, 100, 199, 200, 399, 400, 500}
FormattingScorePool == {-50, 0, 35, 65, 100, 300}

ConfParams(ai, ctx, sel, vis, len, fmt, ver) ==
    [aiConfidence |-> ai, hasContext |-> ctx, hasSelectedText |-> sel,
     hasVisualContext |-> vis, responseLength |-> len,
     hasFormatting |-> [score |-> fmt], isVerifiedSource |-> ver]

\* The parameters are drawn first; the action applies the function to them.
InitConf ==
    /\ store = EmptyStore
    /\ last = Call("none", NoParams, "ok", 0, FALSE,
                   Returned(EmptyStore, Plain("undefined"), <<>>))
    /\ calls = 0
    /\ log = NoLog
    /\ resolve = NoResolve
    /\ ask = NoAsk
    /\ \E ai \in AiConfidencePool, len \in ResponseLengthPool, fmt \in FormattingScorePool,
          ctx \in BOOLEAN, sel \in BOOLEAN, vis \in BOOLEAN, ver \in BOOLEAN :
          conf = [op |-> "params", params |-> ConfParams(ai, ctx, sel, vis, len, fmt, ver)]

CalculateConfidence ==
    /\ conf.op = "params"
    /\ conf' = [op |-> "calculateConfidence", params |-> conf.params,
                out |-> calculateConfidence(conf.params)]
    /\ UNCHANGED <<store, last, calls, ask, resolve, log>>

NextConf == CalculateConfidence

SpecConf == InitConf /\ [][NextConf]_vars

Scored == conf.op = "calculateConfidence"

\* C5: finalScore lies in [0,100] for every combination of inputs; a model
\* confidence above 100 contributes as 100 does and one below 0 as 0 does
\* (the clamp comes before the weight), and a verified-source sum above 100
\* is returned as 100.
C5_ScoreInRange ==
    Scored =>
        /\ conf.out.finalScore \in 0..100
        /\ (conf.params.aiConfidence >= 100
              => conf.out.breakdown.aiConfidence.contribution
                   = (IF conf.params.isVerifiedSource THEN 50 ELSE 35))
        /\ (conf.params.aiConfidence <= 0
              => conf.out.breakdown.aiConfidence.contribution = 0)
        /\ (conf.out.rounded > 100 => conf.out.finalScore = 100)

\* Model confidence 150 from a verified source with full context, a long
\* and fully formatted response: 50 + 25 + 20 + 20 + 10 = 125, returned as 100.
C5_Witness ==
    /\ Scored
    /\ conf.params.aiConfidence = 150
    /\ conf.params.isVerifiedSource
    /\ conf.out.rounded = 125
    /\ conf.out.finalScore = 100

\* C6: finalScore = clamp(round(AI + context + response + formatting +
\* bonus)), with AI = clamp(confidence) * 0.35 (0.50 verified), context =
\* min(25, 12 selected + 8 context + 5 visual), response = 20/15/10/5 for
\* length >= 400/200/100/otherwise, formatting = score / 100 * 20, bonus 10
\* if verified; confidence 85, unverified, selected text and context, no
\* visual context, length 500, formatting 100 gives 90 and "High".
C6_Hundredths ==
    LET q == conf.params
        c == IF q.aiConfidence < 0 THEN 0 ELSE IF q.aiConfidence > 100 THEN 100
             ELSE q.aiConfidence
        ai == IF q.isVerifiedSource THEN c * 50 ELSE c * 35
        sum == (IF q.hasSelectedText THEN 12 ELSE 0) + (IF q.hasContext THEN 8 ELSE 0)
               + (IF q.hasVisualContext THEN 5 ELSE 0)
        context == IF sum > 25 THEN 2500 ELSE sum * 100
        response == CASE q.responseLength >= 400 -> 2000
                      [] q.responseLength \in 200..399 -> 1500
                      [] q.responseLength \in 100..199 -> 1000
                      [] OTHER -> 500
        formatting == q.hasFormatting.score * 20
        bonus == IF q.isVerifiedSource THEN 1000 ELSE 0
    IN  ai + context + response + formatting + bonus

C6_Nearest(h) == CHOOSE n \in -20..200 : 100 * n - 50 <= h /\ h < 100 * n + 50

C6_IsExample ==
    conf.params = ConfParams(85, TRUE, TRUE, FALSE, 500, 100, FALSE)

C6_ScoreFormula ==
    Scored =>
        /\ LET n == C6_Nearest(C6_Hundredths)
           IN  conf.out.finalScore = (IF n < 0 THEN 0 ELSE IF n > 100 THEN 100 ELSE n)
        /\ (C6_IsExample
              => /\ C6_Hundredths = 8975
                 /\ conf.out.finalScore = 90
                 /\ conf.out.breakdown.summary.reliability = "High")

C6_Witness ==
    /\ Scored
    /\ C6_IsExample
    /\ conf.out.finalScore = 90
    /\ conf.out.breakdown.summary.reliability = "High"

\* C18: the breakdown reports each of the five components of the final
\* score (AI, context, response quality, formatting, verified-source bonus)
\* with its weight and its unrounded contribution, and the contributions
\* reported add up, once rounded, to the score before its clamp.
C18_Components ==
    {"aiConfidence", "contextQuality", "responseQuality", "formattingQuality", "sourceBonus"}

C18_Raw(component) ==
    LET q == conf.params
        c == IF q.aiConfidence < 0 THEN 0 ELSE IF q.aiConfidence > 100 THEN 100
             ELSE q.aiConfidence
        sum == (IF q.hasSelectedText THEN 12 ELSE 0) + (IF q.hasContext THEN 8 ELSE 0)
               + (IF q.hasVisualContext THEN 5 ELSE 0)
    IN  CASE component = "aiConfidence" -> IF q.isVerifiedSource THEN c * 50 ELSE c * 35
          [] component = "contextQuality" -> IF sum > 25 THEN 2500 ELSE sum * 100
          [] component = "responseQuality" ->
                (CASE q.responseLength >= 400 -> 2000
                   [] q.responseLength \in 200..399 -> 1500
                   [] q.responseLength \in 100..199 -> 1000
                   [] OTHER -> 500)
          [] component = "formattingQuality" -> q.hasFormatting.score * 20
          [] component = "sourceBonus" -> IF q.isVerifiedSource THEN 1000 ELSE 0

C18_Reported == C18_Components \cap DOMAIN conf.out.breakdown

C18_BreakdownAccounts ==
    Scored =>
        /\ C18_Reported = C18_Components
        /\ \A component \in C18_Reported :
              100 * conf.out.breakdown[component].contribution = C18_Raw(component)
        /\ LET total == conf.out.breakdown.aiConfidence.contribution
                        + conf.out.breakdown.contextQuality.contribution
                        + conf.out.breakdown.responseQuality.contribution
                        + conf.out.breakdown.formattingQuality.contribution
                        + conf.out.breakdown.sourceBonus.contribution
           IN  total = conf.out.rounded

(***************************************************************************)
(* The askGroq machine: the arguments and the key of the process are drawn *)
(* first; the action is one call, with what the image host and the model   *)
(* provider answer.                                                        *)
(***************************************************************************)
AskContextPool ==
    {<<>>,
     <<"sets">>,
     <<Sentinel, " ", "{", "ts=1:05", "seg=intro", "course=sets", "}">>,
     <<Sentinel, " ", "{", "ts=1:05", "}">>,
     <<Sentinel, " ", "oops">>,
     <<Sentinel, "{", "ts=1:05", "}">>,
     <<Sentinel, " ", "null">>,
     <<Sentinel, " ", "42">>,
     <<"sets", Sentinel, " ", "{", "ts=1:05", "}">>}

\* A concept question, a coding question, a coding question that asks for
\* code, and a concept question that asks for code.
AskQueryPool ==
    {<<"what", "is", "a", "set">>,
     <<"what", "is", "a", "python", "class">>,
     <<"show", "code", "for", "a", "set">>,
     <<"a", "snippet", "on", "osi", "layers">>}

ContentUrlPool == {"", "http://host/frame.png", "http://host/frame.jpg"}
ContentTypePool == {"", "image", "video"}
LanguagePool == {"english", "hindi"}
SelectedTextPool == {"", "union of sets", "python code"}
KeyPool == {"", "user-key"}
EnvKeyPool == {"", "env-key"}
ImageOutcomes == {"ok", "error"}
ModelOutcomes == {"ok", "401", "413", "429", "timeout", "bad_body"}

RPlain == [lines |-> <<"plain">>, length |-> 50]
RMid == [lines |-> <<"h3", "h4", "h4", "bullet", "bold">>, length |-> 250]
RRich == [lines |-> <<"h3", "h4", "h4", "bullet", "number", "bold", "fence", "code",
                     "formula">>, length |-> 500]
ResponsePool == {RPlain, RMid, RRich}

AskArgs(context, visualContext, contentUrl, contentType, language, selectedText, userKey) ==
    [query |-> <<"what", "is", "a", "set">>, context |-> context, visualContext |-> visualContext,
     contentUrl |-> contentUrl, contentType |-> contentType, language |-> language,
     selectedText |-> selectedText, userKey |-> userKey]

InitAsk ==
    /\ store = EmptyStore
    /\ last = Call("none", NoParams, "ok", 0, FALSE,
                   Returned(EmptyStore, Plain("undefined"), <<>>))
    /\ calls = 0
    /\ log = NoLog
    /\ resolve = NoResolve
    /\ conf = NoConf
    /\ \E query \in AskQueryPool, context \in AskContextPool, visualContext \in BOOLEAN,
          contentUrl \in ContentUrlPool, contentType \in ContentTypePool,
          language \in LanguagePool, selectedText \in SelectedTextPool,
          userKey \in KeyPool, envKey \in EnvKeyPool :
          ask = [op |-> "args", envKey |-> envKey,
                 in |-> [AskArgs(context, visualContext, contentUrl, contentType,
                                 language, selectedText, userKey) EXCEPT !.query = query]]

\* What the hosts answer is drawn only for the requests the call issues.
AskGroq ==
    /\ ask.op = "args"
    /\ \E image \in ImageOutcomes, outcome \in ModelOutcomes, response \in ResponsePool :
          LET out == askGroq(ask.in, ask.envKey, image, outcome, response)
          IN  /\ (image # "ok" => \E i \in DOMAIN out.requests : out.requests[i].to = "image")
              /\ (outcome # "ok" => \E i \in DOMAIN out.requests : out.requests[i].to = "model")
              /\ (response # RPlain => ~out.raised)
              /\ ask' = [op |-> "askGroq", envKey |-> ask.envKey, in |-> ask.in,
                         image |-> image, outcome |-> outcome, out |-> out]
    /\ UNCHANGED <<store, last, calls, conf, resolve, log>>

NextAsk == AskGroq

SpecAsk == InitAsk /\ [][NextAsk]_vars

Asked == ask.op = "askGroq"
ModelRequests == {i \in DOMAIN ask.out.requests : ask.out.requests[i].to = "model"}
ImageRequests == {i \in DOMAIN ask.out.requests : ask.out.requests[i].to = "image"}

\* C7: the request to the model names the vision model if and only if
\* visualContext is set, a contentUrl is supplied and contentType is "image";
\* when one of the three is missing the request names the text model, its
\* messages are text only and no image is fetched.
C7_AllThree ==
    ask.in.visualContext /\ ask.in.contentUrl # "" /\ ask.in.contentType = "image"

C7_VisionIffAllThree ==
    Asked =>
        \A i \in ModelRequests :
            /\ ask.out.requests[i].model = VisionModel <=> C7_AllThree
            /\ ~C7_AllThree => /\ ask.out.requests[i].model = TextModel
                               /\ ask.out.requests[i].messages = "text"
                               /\ ImageRequests = {}

\* A call with all three, whose image was fetched and sent with the prompt
\* to the vision model.
C7_Witness ==
    /\ Asked
    /\ C7_AllThree
    /\ ImageRequests # {}
    /\ \E i \in ModelRequests : /\ ask.out.requests[i].model = VisionModel
                                /\ ask.out.requests[i].messages = "text+image"
    /\ ~ask.out.raised

\* C8: the region-grounded prompt is built if and only if the context begins
\* with the sentinel, the adaptive prompt otherwise; when the text after the
\* sentinel is no JSON, transcript segment, timestamp and course context are
\* empty in the prompt and the model is called.
C8_Payload == Tail(ask.in.context)

C8_RegionIffSentinel ==
    (Asked /\ ask.out.prompt.mode # "none") =>
        /\ ask.out.prompt.mode \in {"region", "adaptive"}
        /\ ask.out.prompt.mode = "region" <=> (ask.in.context # <<>> /\ Head(ask.in.context) = Sentinel)

C8_MalformedDegrades ==
    (/\ Asked
     /\ ask.in.userKey # "" \/ ask.envKey # ""
     /\ ask.in.context # <<>>
     /\ Head(ask.in.context) = Sentinel
     /\ JSONparse(C8_Payload).kind = "error") =>
        /\ ask.out.prompt.mode = "region"
        /\ ask.out.prompt.timestamp = ""
        /\ ask.out.prompt.transcript = ""
        /\ ask.out.prompt.course = ""
        /\ ModelRequests # {}
        /\ (ask.outcome = "ok" => ~ask.out.raised)

C8_PromptMode == C8_RegionIffSentinel /\ C8_MalformedDegrades

\* A call whose context is the sentinel followed by text that is no JSON,
\* answered by the model.
C8_Witness ==
    /\ Asked
    /\ ask.in.context = <<Sentinel, " ", "oops">>
    /\ ask.out.prompt.mode = "region"
    /\ ask.out.prompt.transcript = ""
    /\ ~ask.out.raised

\* C10: the request to the model carries the caller's key whenever one is
\* given, else the key of the process; with neither the call fails and no
\* request, to the image host or to the model, has been issued.
C10_Credential ==
    Asked =>
        /\ \A i \in ModelRequests :
              ask.out.requests[i].key =
                  (IF ask.in.userKey # "" THEN ask.in.userKey ELSE ask.envKey)
        /\ (ask.in.userKey = "" /\ ask.envKey = "")
              => (ask.out.raised /\ ask.out.requests = <<>>)
        /\ (ask.in.userKey # "" \/ ask.envKey # "")
              => (ask.out.prompt.mode # "none" => ModelRequests # {})

\* A call with no key at all, on arguments that would fetch an image.
C10_Witness ==
    /\ Asked
    /\ ask.in.userKey = ""
    /\ ask.envKey = ""
    /\ C7_AllThree
    /\ ask.out.raised
    /\ ask.out.requests = <<>>

\* C11: a call of askGroq that meets a fatal condition (no key, a 401, 413
\* or 429 of the provider, a timeout, a response without the expected body)
\* throws, every call that throws carries the one message "AI Tutor is
\* currently unavailable." and returns no result object, and a call that does
\* not throw returns one.
C11_FatalCondition ==
    \/ ask.in.userKey = "" /\ ask.envKey = ""
    \/ ask.outcome \in {"401", "413", "429", "timeout", "bad_body"}

C11_UnifiedFailure ==
    Asked =>
        /\ C11_FatalCondition => ask.out.raised
        /\ ask.out.raised => (ask.out.error = Unavailable /\ ask.out.ret = NoResult)
        /\ ~ask.out.raised => (ask.out.error = "" /\ ask.out.ret.source # "")

\* A call the provider answered with 401.
C11_Witness ==
    /\ Asked
    /\ ask.outcome = "401"
    /\ ModelRequests # {}
    /\ ask.out.raised
    /\ ask.out.error = Unavailable

\* C12: the error a failing askGroq call throws tells the fatal kinds apart:
\* a missing key, a 401, a 413 or 429, and any other failure of the provider
\* each give an error no other kind gives.
C12_Kinds == {"MissingCredential", "InvalidCredential", "RateOrSizeLimited", "Upstream"}

C12_Kind ==
    IF ask.in.userKey = "" /\ ask.envKey = "" THEN "MissingCredential"
    ELSE IF ask.outcome = "401" THEN "InvalidCredential"
    ELSE IF ask.outcome \in {"413", "429"} THEN "RateOrSizeLimited"
    ELSE "Upstream"

\* The error of a plain text call that fails in the given way.
C12_ErrorOf(kind) ==
    LET in == AskArgs(<<>>, FALSE, "", "", "english", "",
                      IF kind = "MissingCredential" THEN "" ELSE "user-key")
        outcome == CASE kind = "InvalidCredential" -> "401"
                     [] kind = "RateOrSizeLimited" -> "429"
                     [] kind = "Upstream" -> "timeout"
                     [] OTHER -> "ok"
    IN  askGroq(in, "", "ok", outcome, RPlain).error

C12_KindsDistinguished ==
    (Asked /\ ask.out.raised) =>
        \A kind \in C12_Kinds \ {C12_Kind} : ask.out.error # C12_ErrorOf(kind)

(***************************************************************************)
(* The formatting machine: checkFormattingQuality applied to a drawn text.  *)
(* A text has at most one line of each kind but "h4", of which it has up   *)
(* to MaxSubtitles; the text without a line is the empty string.           *)
(***************************************************************************)
MaxSubtitles == 2

LineKinds == <<"h3", "bullet", "number", "bold", "fence", "code", "formula", "plain">>

TextOf(kinds, subtitles) ==
    LET lines == SelectSeq(LineKinds, LAMBDA k : k \in kinds) \o [i \in 1..subtitles |-> "h4"]
    IN  [lines |-> lines, length |-> 10 * Len(lines)]

TextPool ==
    {TextOf(kinds, subtitles) :
        kinds \in SUBSET {LineKinds[i] : i \in DOMAIN LineKinds}, subtitles \in 0..MaxSubtitles}

InitFormat ==
    /\ store = EmptyStore
    /\ last = Call("none", NoParams, "ok", 0, FALSE,
                   Returned(EmptyStore, Plain("undefined"), <<>>))
    /\ calls = 0
    /\ log = NoLog
    /\ resolve = NoResolve
    /\ ask = NoAsk
    /\ \E text \in TextPool : conf = [op |-> "text", text |-> text]

CheckFormattingQuality ==
    /\ conf.op = "text"
    /\ conf' = [op |-> "checkFormattingQuality", text |-> conf.text,
                out |-> checkFormattingQuality(conf.text)]
    /\ UNCHANGED <<store, last, calls, ask, resolve, log>>

NextFormat == CheckFormattingQuality

SpecFormat == InitFormat /\ [][NextFormat]_vars

Checked == conf.op = "checkFormattingQuality"

\* C17 as claimed: the score is the sum of the weights of the features
\* reported (main heading 15, secondary headings 15, bullet list 10, numbered
\* list 10, bold 10, fenced code 5, inline code 5, formula 5, at least one
\* main heading 5, at least two secondary headings 10); a feature the text
\* shows is reported; the score lies in [0,100]; one main heading, two
\* secondary headings, a bullet list and bold text give 65; and the empty
\* text gives score 0 with every flag reported false.
C17_Flag(f) == f \in DOMAIN conf.out.details.flags /\ conf.out.details.flags[f]
C17_Count(c) == IF c \in DOMAIN conf.out.details.counts THEN conf.out.details.counts[c] ELSE 0

C17_Sum ==
    (IF C17_Flag("mainTitle") THEN 15 ELSE 0) + (IF C17_Flag("subtitles") THEN 15 ELSE 0)
    + (IF C17_Flag("bulletPoints") THEN 10 ELSE 0) + (IF C17_Flag("numberedLists") THEN 10 ELSE 0)
    + (IF C17_Flag("boldText") THEN 10 ELSE 0) + (IF C17_Flag("codeBlocks") THEN 5 ELSE 0)
    + (IF C17_Flag("inlineCode") THEN 5 ELSE 0) + (IF C17_Flag("formulas") THEN 5 ELSE 0)
    + (IF C17_Count("titleCount") >= 1 THEN 5 ELSE 0)
    + (IF C17_Count("subtitleCount") >= 2 THEN 10 ELSE 0)

C17_Shows(kind) == \E i \in DOMAIN conf.text.lines : conf.text.lines[i] = kind

C17_Detected ==
    /\ C17_Shows("h3") => C17_Flag("mainTitle")
    /\ C17_Shows("h4") => C17_Flag("subtitles")
    /\ C17_Shows("bullet") => C17_Flag("bulletPoints")
    /\ C17_Shows("number") => C17_Flag("numberedLists")
    /\ C17_Shows("bold") => C17_Flag("boldText")
    /\ C17_Shows("fence") => C17_Flag("codeBlocks")
    /\ C17_Shows("code") => C17_Flag("inlineCode")
    /\ C17_Shows("formula") => C17_Flag("formulas")

C17_IsExample == conf.text.lines = <<"h3", "bullet", "bold", "h4", "h4">>

C17_Weights ==
    /\ conf.out.score = C17_Sum
    /\ C17_Detected
    /\ conf.out.score \in 0..100
    /\ C17_IsExample => conf.out.score = 65

C17_ScoreAndFalseFlags ==
    Checked =>
        /\ C17_Weights
        /\ conf.text.length = 0
              => /\ conf.out.score = 0
                 /\ \A f \in Features :
                       f \in DOMAIN conf.out.details.flags /\ ~conf.out.details.flags[f]

\* C17 as amended: the same, except that for the empty text the score is 0
\* and the details report no flag at all.
C17_ScoreAndNoFlags ==
    Checked =>
        /\ C17_Weights
        /\ conf.text.length = 0
              => /\ conf.out.score = 0
                 /\ DOMAIN conf.out.details.flags = {}
                 /\ DOMAIN conf.out.details.counts = {}
        /\ conf.text.length # 0 => DOMAIN conf.out.details.flags = Features

\* The text of the example, scored 65.
C17_Witness ==
    /\ Checked
    /\ C17_IsExample
    /\ conf.out.score = 65
    /\ conf.out.details.counts["subtitleCount"] = 2

(***************************************************************************)
(* The resolution machine: MaxRequests requests for one normalised key run *)
(* concurrently.  A request looks the key up, searches the knowledge       *)
(* graph, asks the model, and writes the Doubt and the knowledge graph;    *)
(* it returns at the first hit.  Each step is one call of an operation of  *)
(* this module and is atomic; the steps of the requests interleave freely. *)
(***************************************************************************)
MaxRequests == 2

RequestIds == 1..MaxRequests

Request(query) ==
    [pc |-> "lookup", query |-> query, answer |-> "", confidence |-> 0,
     asked |-> FALSE, pending |-> {}, admitted |-> FALSE]

ResolveParams(r) ==
    Params(resolve[r].query, <<>>, resolve[r].answer, resolve[r].confidence,
           "course-1", "content-1")

InitResolve ==
    /\ store = EmptyStore
    /\ last = Call("none", NoParams, "ok", 0, FALSE,
                   Returned(EmptyStore, Plain("undefined"), <<>>))
    /\ calls = 0
    /\ log = NoLog
    /\ ask = NoAsk
    /\ conf = NoConf
    /\ resolve \in [RequestIds -> {Request(query) : query \in RoundTripQueries}]

\* Exact-match lookup: a hit answers the request.
Lookup(r) ==
    /\ resolve[r].pc = "lookup"
    /\ \E o \in searchExistingDoubts(store, ResolveParams(r), 0) :
          resolve' = [resolve EXCEPT ![r] =
                         IF o.ret.kind = "hit"
                         THEN [@ EXCEPT !.pc = "done", !.answer = o.ret.answer,
                                        !.confidence = o.ret.confidence]
                         ELSE [@ EXCEPT !.pc = "semantic"]]
    /\ UNCHANGED <<store, last, calls, ask, conf, log>>

\* Semantic search: a match answers the request.
Semantic(r) ==
    /\ resolve[r].pc = "semantic"
    /\ \E o \in searchKnowledgeGraph(store, ResolveParams(r), "ok", 0) :
          resolve' = [resolve EXCEPT ![r] =
                         IF o.ret.kind = "match"
                         THEN [@ EXCEPT !.pc = "done", !.answer = o.ret.answer,
                                        !.confidence = o.ret.confidence]
                         ELSE [@ EXCEPT !.pc = "ask"]]
    /\ UNCHANGED <<store, last, calls, ask, conf, log>>

\* The model is asked; its answer and the score of the answer are drawn.
AskModel(r) ==
    /\ resolve[r].pc = "ask"
    /\ \E answer \in AnswerPool, confidence \in ConfidencePool :
          resolve' = [resolve EXCEPT ![r] =
                         [@ EXCEPT !.pc = "write", !.answer = answer,
                                   !.confidence = confidence, !.asked = TRUE,
                                   !.pending = {"doubt", "knowledge"}]]
    /\ UNCHANGED <<store, last, calls, ask, conf, log>>

Written(req, what, admitted) ==
    [req EXCEPT !.pending = @ \ {what},
                !.pc = IF req.pending = {what} THEN "done" ELSE "write",
                !.admitted = admitted]

\* The Doubt of the key is upserted.
WriteDoubt(r) ==
    /\ resolve[r].pc = "write"
    /\ "doubt" \in resolve[r].pending
    /\ store' = saveDoubtToGraph(store, ResolveParams(r), 0).st
    /\ resolve' = [resolve EXCEPT ![r] = Written(@, "doubt", @.admitted)]
    /\ UNCHANGED <<last, calls, ask, conf, log>>

\* The answer is offered to the knowledge graph.
Admit(r) ==
    /\ resolve[r].pc = "write"
    /\ "knowledge" \in resolve[r].pending
    /\ LET o == saveToKnowledgeGraph(store, ResolveParams(r), "ok", 0)
       IN  /\ store' = o.st
           /\ resolve' = [resolve EXCEPT ![r] = Written(@, "knowledge", o.ret.kind = "true")]
    /\ UNCHANGED <<last, calls, ask, conf, log>>

NextResolve ==
    \/ \E r \in RequestIds : Lookup(r)
    \/ \E r \in RequestIds : Semantic(r)
    \/ \E r \in RequestIds : AskModel(r)
    \/ \E r \in RequestIds : WriteDoubt(r)
    \/ \E r \in RequestIds : Admit(r)

SpecResolve == InitResolve /\ [][NextResolve]_vars

\* C20: in every interleaving of the requests the store never holds two
\* Doubts with one queryKey nor two Question nodes with one text; and once
\* all requests have ended, for every request that asked the model and wrote
\* its result the store holds exactly one Doubt with the request's key and,
\* if its answer was admitted, exactly one Question node with its query text.
C20_DoubtsOf(r) ==
    {i \in DOMAIN store.doubts : store.doubts[i].queryKey = QueryKey(resolve[r].query, <<>>)}

C20_QuestionsOf(r) ==
    {i \in DOMAIN store.questions : store.questions[i].text = resolve[r].query}

C21_ImageFailureDegrades ==
    (Asked /\ ImageRequests # {} /\ ask.image = "error") =>
        /\ \E i \in ModelRequests : ask.out.requests[i].messages = "text"
        /\ \A i \in ModelRequests : ask.out.requests[i].messages = "text"
        /\ ask.outcome = "ok" =>
              /\ ~ask.out.raised
              /\ ask.out.ret.explanation \in ResponsePool
              /\ ask.out.ret.confidence \in 0..100

\* A call in vision mode whose image fetch failed and whose model call
\* succeeded.
C21_Witness ==
    /\ Asked
    /\ C7_AllThree
    /\ ImageRequests # {}
    /\ ask.image = "error"
    /\ ask.outcome = "ok"
    /\ ~ask.out.raised
    /\ ask.out.ret.source = "groq_vision"

\* C22: in adaptive mode the prompt depends on the classification of the
\* query: the prompt of a call differs from the prompt of the call that
\* differs from it only by a query of the other class (coding against
\* concept, by the keywords of the query and of the selected text).
C22_OtherClass(query) ==
    isCodingQuery([ask.in EXCEPT !.query = query]) # isCodingQuery(ask.in)

C22_PromptByClass ==
    (Asked /\ ask.out.prompt.mode = "adaptive") =>
        \A query \in AskQueryPool :
            C22_OtherClass(query)
                => SystemPrompt([ask.in EXCEPT !.query = query]).prompt # ask.out.prompt

\* C27: a successful askGroq call returns a confidence of 85 or more only for
\* a call with selected text and with a context or a visual context; without
\* selected text the confidence is at most 81, whatever the response, and
\* saveToKnowledgeGraph does not admit an answer of that confidence.
C27_NotAdmitted(confidence) ==
    \A outcome \in EmbeddingOutcomes, failAt \in FailAtSave :
        LET o == saveToKnowledgeGraph(EmptyStore,
                                      Params(QSorted, CtxNone, "answer-1", confidence,
                                             "course-1", ""),
                                      outcome, failAt)
        IN  o.ret.kind = "null" /\ o.st = EmptyStore /\ o.io = <<>>

C27_AdmissionNeedsSelection ==
    (Asked /\ ~ask.out.raised) =>
        /\ ask.out.ret.confidence >= 85 =>
              /\ ask.in.selectedText # ""
              /\ (ask.in.context # <<>> \/ ask.in.visualContext)
        /\ ask.in.selectedText = "" =>
              /\ ask.out.ret.confidence <= 81
              /\ C27_NotAdmitted(ask.out.ret.confidence)

\* A call without selected text, with a context and a visual context, whose
\* response has every structure and 500 characters: the confidence is 81.
C27_Witness ==
    /\ Asked
    /\ ~ask.out.raised
    /\ ask.in.selectedText = ""
    /\ ask.in.context # <<>>
    /\ ask.in.visualContext
    /\ ask.out.ret.explanation = RRich
    /\ ask.out.ret.confidence = 81

\* C28: a request sent to the vision model whose result is labelled
\* 'groq_vision' carried an image part, and a text-only message list goes to
\* the text model with the result labelled 'groq_llama'.
C28_VisionSawImage ==
    (Asked /\ ~ask.out.raised) =>
        \A i \in ModelRequests :
            /\ (/\ ask.out.requests[i].model = VisionModel
                /\ ask.out.ret.source = "groq_vision")
                  => ask.out.requests[i].messages = "text+image"
            /\ ask.out.requests[i].messages = "text"
                  => /\ ask.out.requests[i].model = TextModel
                     /\ ask.out.ret.source = "groq_llama"

\* C30: in region-grounded mode no payload after the sentinel makes the
\* prompt construction fail: with an API key the call goes on to the model
\* request, and each grounding field the payload does not supply is the empty
\* string in the prompt.
C30_Supplied(name) ==
    \E i \in DOMAIN ask.in.context : MemberField(ask.in.context[i]) = name

C30_PayloadTolerated ==
    (/\ Asked
     /\ ask.in.context # <<>>
     /\ Head(ask.in.context) = Sentinel
     /\ (ask.in.userKey # "" \/ ask.envKey # ""))
        => /\ ModelRequests # {}
           /\ ask.out.prompt.mode = "region"
           /\ ~C30_Supplied("selectedTimestamp") => ask.out.prompt.timestamp = ""
           /\ ~C30_Supplied("transcriptSegment") => ask.out.prompt.transcript = ""
           /\ ~C30_Supplied("courseContext") => ask.out.prompt.course = ""
====
